---- MODULE Spec2Model ----
(***************************************************************************)
(* Model of boost::multiprecision::pslq (pslq.hpp): the PSLQ integer       *)
(* relation algorithm over a binary floating-point type Real with a        *)
(* P-bit significand, round-to-nearest-even, and the int64 matrices A, B.  *)
(***************************************************************************)
EXTENDS Integers, Sequences, FiniteSets, TLC

(***************************************************************************)
(* Bounds of the model.                                                    *)
(***************************************************************************)
\* significand width of Real (template parameter of pslq)
P == 12
\* rounds of the main loop explored per call
MaxIter == 12
\* width of the integer type of A, B and tint: int64_t in pslq.hpp, which is
\* narrower than the significand of a multiprecision Real; narrowed here in
\* the same proportion to P
IntBits == 11

(***************************************************************************)
(* Real: binary floating point, value m * 2^e, 2^(P-1) <= |m| < 2^P or 0,  *)
(* with the two infinities and NaN that a division by zero produces.       *)
(***************************************************************************)
Zero == [m |-> 0, e |-> 0]

Abs(n) == IF n < 0 THEN -n ELSE n

Sgn(n) == IF n < 0 THEN -1 ELSE IF n > 0 THEN 1 ELSE 0

RECURSIVE BitLen(_)
BitLen(n) == IF n = 0 THEN 0 ELSE 1 + BitLen(n \div 2)

\* M * 2^E rounded to the nearest Real, ties to even
Rnd(M, E) ==
    LET a == Abs(M)
        L == BitLen(a)
    IN  IF a = 0 THEN Zero
        ELSE IF L <= P THEN [m |-> M * 2^(P - L), e |-> E - (P - L)]
        ELSE LET sh == L - P
                 q  == a \div 2^sh
                 r  == a % 2^sh
                 h  == 2^(sh - 1)
                 up == (r > h) \/ (r = h /\ q % 2 = 1)
                 q1 == IF up THEN q + 1 ELSE q
             IN  IF q1 = 2^P
                 THEN [m |-> Sgn(M) * 2^(P - 1), e |-> E + sh + 1]
                 ELSE [m |-> Sgn(M) * q1, e |-> E + sh]

FromInt(n) == Rnd(n, 0)

\* the exponent that marks the values that are not finite
HugeExp == 2^20

\* the quotient 0/0 and whatever is computed from it
NaN == [m |-> 0, e |-> HugeExp]

\* the quotient a/0 for a > 0, and for a < 0
PosInf == [m |-> 1, e |-> HugeExp]

NegInf == [m |-> -1, e |-> HugeExp]

IsFinite(a) == a.e # HugeExp

IsNaN(a) == a = NaN

RNeg(a) == [m |-> -a.m, e |-> a.e]

RAbs(a) == [m |-> Abs(a.m), e |-> a.e]

\* a * b; infinity times 0 is NaN
RMul(a, b) ==
    IF IsFinite(a) /\ IsFinite(b) THEN Rnd(a.m * b.m, a.e + b.e)
    ELSE IF a.m = 0 \/ b.m = 0 THEN NaN
    ELSE IF Sgn(a.m) = Sgn(b.m) THEN PosInf ELSE NegInf

\* a + b; an operand more than P+1 binades below the other is absorbed
RAdd(a, b) ==
    IF ~IsFinite(a) \/ ~IsFinite(b)
    THEN IF IsNaN(a) \/ IsNaN(b) THEN NaN
         ELSE IF ~IsFinite(a) /\ ~IsFinite(b) /\ a # b THEN NaN
         ELSE IF IsFinite(a) THEN b ELSE a
    ELSE IF a.m = 0 THEN b
    ELSE IF b.m = 0 THEN a
    ELSE LET hi == IF a.e >= b.e THEN a ELSE b
             lo == IF a.e >= b.e THEN b ELSE a
             d  == hi.e - lo.e
         IN  IF d > P + 1 THEN hi
             ELSE Rnd(hi.m * 2^d + lo.m, lo.e)

RSub(a, b) == RAdd(a, RNeg(b))

\* a / b: P+2 quotient bits and a sticky bit, then rounded; a/0 is infinite
\* and 0/0 is NaN
RDiv(a, b) ==
    IF ~IsFinite(a) \/ ~IsFinite(b)
    THEN IF IsNaN(a) \/ IsNaN(b) \/ (~IsFinite(a) /\ ~IsFinite(b)) THEN NaN
         ELSE IF IsFinite(a) THEN Zero
         ELSE IF a.m * b.m >= 0 THEN a ELSE RNeg(a)
    ELSE IF b.m = 0
    THEN IF a.m = 0 THEN NaN ELSE IF a.m > 0 THEN PosInf ELSE NegInf
    ELSE IF a.m = 0 THEN Zero
    ELSE LET num == Abs(a.m) * 2^(P + 2)
             den == Abs(b.m)
             q   == num \div den
             st  == IF num % den = 0 THEN 0 ELSE 1
         IN  Rnd(Sgn(a.m) * Sgn(b.m) * (2 * q + st), a.e - b.e - (P + 3))

RECURSIVE ISqrtBits(_, _, _)
\* largest r with r*r <= n, built bit by bit from bit k down
ISqrtBits(n, r, k) ==
    IF k < 0 THEN r
    ELSE LET c == r + 2^k
         IN  ISqrtBits(n, IF c * c <= n THEN c ELSE r, k - 1)

\* sqrt(a) for a >= 0
RSqrt(a) ==
    IF ~IsFinite(a) THEN (IF a = PosInf THEN PosInf ELSE NaN)
    ELSE IF a.m = 0 THEN Zero
    ELSE LET sh  == IF (a.e - (P + 1)) % 2 = 0 THEN P + 1 ELSE P + 2
             n   == a.m * 2^sh
             r   == ISqrtBits(n, 0, P)
             st  == IF r * r = n THEN 0 ELSE 1
         IN  Rnd(2 * r + st, ((a.e - sh) \div 2) - 1)

RSign(a) == Sgn(a.m)

\* a comparison with NaN is false
RLess(a, b) ==
    IF IsNaN(a) \/ IsNaN(b) THEN FALSE
    ELSE IF IsFinite(a) /\ IsFinite(b) THEN RSign(RSub(a, b)) < 0
    ELSE a # b /\ (a = NegInf \/ b = PosInf)

RLeq(a, b) ==
    IF IsNaN(a) \/ IsNaN(b) THEN FALSE
    ELSE IF IsFinite(a) /\ IsFinite(b) THEN RSign(RSub(a, b)) <= 0
    ELSE a = b \/ a = NegInf \/ b = PosInf

REq(a, b) == a = b /\ ~IsNaN(a)

\* std::round followed by static_cast<int64_t>: nearest integer, halves away from zero
RoundInt(a) ==
    IF a.m = 0 THEN 0
    ELSE IF a.e >= 0 THEN a.m * 2^(a.e)
    ELSE IF -a.e > P + 1 THEN 0
    ELSE Sgn(a.m) * ((Abs(a.m) + 2^(-a.e - 1)) \div 2^(-a.e))

One == FromInt(1)

\* std::numeric_limits<Real>::epsilon()
Epsilon == [m |-> 2^(P - 1), e |-> 2 - 2 * P]

\* 1/epsilon, exact
InvEpsilon == [m |-> 2^(P - 1), e |-> 0]

\* sqrt(std::numeric_limits<Real>::epsilon())
SqrtEpsilon == RSqrt(Epsilon)

\* 2^(j/16), j = 0..15, to 24 fractional bits
Pow2Sixteenths ==
    <<16777216, 17520007, 18295684, 19105703, 19951585, 20834917, 21757357, 22720638,
      23726566, 24777031, 25874004, 27019544, 28215802, 29465022, 30769550, 32131834>>

\* pow(epsilon, Real(15)/Real(16)) = 2^(-15(P-1)/16)
RelationThreshold ==
    LET k == 15 * (P - 1)
        c == (k + 15) \div 16
        j == 16 * c - k
    IN  Rnd(Pow2Sixteenths[j + 1], -24 - c)

\* the double 2/sqrt(3) the gamma test compares with; no Real of at most 24 bits
\* lies between it and the exact 2/sqrt(3), so g <= 2/sqrt(3) iff g <= 0 or 3*g*g <= 4
GammaTooSmall(g) ==
    \/ g.m <= 0
    \/ g.e < 1 - P
    \/ g.e = 1 - P /\ 3 * g.m * g.m <= 2^(2 * P)

(***************************************************************************)
(* Inputs of a call.                                                       *)
(***************************************************************************)
\* longest input vector explored
MaxN == 3

\* an entry whose normalised value lies between epsilon and epsilon^(15/16)
Tiny == [m |-> 13 * 2^(P - 4), e |-> 3 - 2 * P]

\* 5/8: with 2 it has the ratio 16/5, a relation whose coefficients are not small
FiveEighths == Rnd(5, -3)

\* 1/16: with Tiny it has the ratio 512/13, a relation that is stepped over and
\* whose remainder in H is then exactly 0
Sixteenth == Rnd(1, -4)

XVals ==
    {FromInt(-1), Zero, Tiny, Sixteenth, FiveEighths, FromInt(1), RSqrt(FromInt(2)), FromInt(2), FromInt(3)}

\* the caller's default gamma = 2/sqrt(3) + 0.01, and the Real nearest to 2/sqrt(3)
DefaultGamma == Rnd(19540433, -24)

EdgeGamma == Rnd(19372660, -24)

GammaVals == {FromInt(-2), EdgeGamma, DefaultGamma, FromInt(2)}

Vectors == UNION {[0 .. k - 1 -> XVals] : k \in 0 .. MaxN}

Size(v) == Cardinality(DOMAIN v)

\* s_sq[i] = x[i]^2 + ... + x[n-1]^2, accumulated from the back
RECURSIVE SuffixSq(_, _)
SuffixSq(v, i) ==
    IF i = Size(v) - 1 THEN RMul(v[i], v[i])
    ELSE RAdd(SuffixSq(v, i + 1), RMul(v[i], v[i]))

SSq(v) == [i \in DOMAIN v |-> SuffixSq(v, i)]

\* the largest norm bound the precision diagnostic recommends for v:
\* 1/sqrt(s_sq[0]*epsilon)
RecommendedBound(v) == RDiv(One, RSqrt(RMul(SSq(v)[0], Epsilon)))

\* the vector (a, b)
Pair(a, b) == [i \in 0 .. 1 |-> IF i = 0 THEN a ELSE b]

MaxNormVals ==
    {Rnd(1, -2), FromInt(1), FromInt(2), FromInt(8),
     RecommendedBound(Pair(RSqrt(FromInt(2)), FromInt(2))),
     RecommendedBound(Pair(FromInt(2), FromInt(3))),
     RecommendedBound(Pair(Tiny, Sixteenth))}

(***************************************************************************)
(* State of one call of pslq(x, max_acceptable_norm_bound, gamma).         *)
(***************************************************************************)
VARIABLES
    x,                          \* the caller's vector
    max_acceptable_norm_bound,
    gamma,
    pc,                         \* the statement about to execute
    exit,                       \* the return statement taken, "" while running
    cerr,                       \* diagnostics written to std::cerr
    relation,                   \* the vector returned
    tau,
    s_sq,
    H,
    y,
    A,
    B,
    ri, rj,                     \* loop indices i, j of the reduction in progress
    m,                          \* pivot of the current round
    norm_bound,
    last_norm_bound,
    iteration

vars == <<x, max_acceptable_norm_bound, gamma, pc, exit, cerr, relation, tau, s_sq,
          H, y, A, B, ri, rj, m, norm_bound, last_norm_bound, iteration>>

n == Size(x)

(***************************************************************************)
(* The state of the Mandelbrot image generator that shares the source tree *)
(* and of the parallel_for it runs its rows with.  pslq uses none of it.   *)
(***************************************************************************)
VARIABLES
    number_of_threads_hint,         \* std::thread::hardware_concurrency()
    start, end,                     \* the arguments of parallel_for
    slice, i1, i2,
    launched,                       \* the counter i of the launching loop
    pool,                           \* the threads, each with its range and position
    joined,                         \* the threads joined so far
    at,                             \* the statement parallel_for is about to execute
    calls,                          \* invocations of parallel_function, by index
    config,                         \* x_lo, x_hi, y_lo, y_hi of mandelbrot_config_object
    max_iterations,
    mandelbrot_iteration_lock,
    unordered_parallel_row_count,
    mandelbrot_iteration_matrix,
    mandelbrot_color_histogram

image_vars == <<number_of_threads_hint, start, end, slice, i1, i2, launched, pool, joined,
                at, calls, config, max_iterations, mandelbrot_iteration_lock,
                unordered_parallel_row_count, mandelbrot_iteration_matrix,
                mandelbrot_color_histogram>>

\* no generator is constructed and parallel_for is not called
NoImage ==
    /\ number_of_threads_hint = 0
    /\ start = 0
    /\ end = 0
    /\ slice = 0
    /\ i1 = 0
    /\ i2 = 0
    /\ launched = 0
    /\ pool = <<>>
    /\ joined = 0
    /\ at = "idle"
    /\ calls = <<>>
    /\ config = <<>>
    /\ max_iterations = 0
    /\ mandelbrot_iteration_lock = FALSE
    /\ unordered_parallel_row_count = 0
    /\ mandelbrot_iteration_matrix = <<>>
    /\ mandelbrot_color_histogram = <<>>

Init ==
    /\ NoImage
    /\ x \in Vectors
    /\ max_acceptable_norm_bound \in MaxNormVals
    /\ gamma \in GammaVals
    /\ pc = "CheckSorted"
    /\ exit = ""
    /\ cerr = {}
    /\ relation = <<>>
    /\ tau = Zero
    /\ s_sq = <<>>
    /\ H = <<>>
    /\ y = <<>>
    /\ A = <<>>
    /\ B = <<>>
    /\ ri = 0
    /\ rj = 0
    /\ m = -1
    /\ norm_bound = Zero
    /\ last_norm_bound = Zero
    /\ iteration = 0

\* "std::cerr << ...; return relation;"
Return(label) ==
    /\ pc' = "done"
    /\ exit' = label
    /\ cerr' = cerr \cup {label}

Goto(label) ==
    /\ pc' = label
    /\ UNCHANGED <<exit, cerr>>

\* the test with the comparison reversed: sorted in decreasing order
IsSortedDecreasing(v) == \A i \in 1 .. Size(v) - 1 : ~RLess(v[i - 1], v[i])

\* std::is_sorted(x.begin(), x.end())
IsSorted(v) == \A i \in 1 .. Size(v) - 1 : ~RLess(v[i], v[i - 1])

CheckSorted ==
    /\ pc = "CheckSorted"
    /\ IF ~IsSorted(x) THEN Return("NotSorted") ELSE Goto("CheckGamma")
    /\ UNCHANGED <<x, max_acceptable_norm_bound, gamma, relation, tau, s_sq, H, y, A, B,
                   ri, rj, m, norm_bound, last_norm_bound, iteration>>
    /\ UNCHANGED image_vars

CheckGamma ==
    /\ pc = "CheckGamma"
    /\ IF GammaTooSmall(gamma) THEN Return("Gamma") ELSE Goto("CheckTau")
    /\ UNCHANGED <<x, max_acceptable_norm_bound, gamma, relation, tau, s_sq, H, y, A, B,
                   ri, rj, m, norm_bound, last_norm_bound, iteration>>
    /\ UNCHANGED image_vars

\* tau without the quarter: 1/sqrt(1/(gamma*gamma)), which is gamma
TauNoQuarter(g) == RDiv(One, RSqrt(RDiv(One, RMul(g, g))))

\* tau = 1/sqrt(1/4 + 1/(gamma*gamma))
Tau(g) == RDiv(One, RSqrt(RAdd(RDiv(One, FromInt(4)), RDiv(One, RMul(g, g)))))

\* the range test with the end points admitted
TauOutsideClosedRange(t) == RLess(t, One) \/ RLess(FromInt(2), t)

TauOutOfRange(t) == RLeq(t, One) \/ RLeq(FromInt(2), t)

CheckTau ==
    /\ pc = "CheckTau"
    /\ tau' = Tau(gamma)
    /\ IF TauOutOfRange(tau') THEN Return("Tau") ELSE Goto("CheckSize")
    /\ UNCHANGED <<x, max_acceptable_norm_bound, gamma, relation, s_sq, H, y, A, B,
                   ri, rj, m, norm_bound, last_norm_bound, iteration>>
    /\ UNCHANGED image_vars

CheckSize ==
    /\ pc = "CheckSize"
    /\ IF n < 2 THEN Return("TooShort") ELSE Goto("CheckEntries")
    /\ UNCHANGED <<x, max_acceptable_norm_bound, gamma, relation, tau, s_sq, H, y, A, B,
                   ri, rj, m, norm_bound, last_norm_bound, iteration>>
    /\ UNCHANGED image_vars

\* index of the first entry that is zero or negative, n if none
RECURSIVE FirstNonPositive(_, _)
FirstNonPositive(v, i) ==
    IF i >= Size(v) THEN i
    ELSE IF RSign(v[i]) <= 0 THEN i
    ELSE FirstNonPositive(v, i + 1)

CheckEntries ==
    /\ pc = "CheckEntries"
    /\ LET i == FirstNonPositive(x, 0)
       IN  IF i < n
           THEN IF RSign(x[i]) = 0 THEN Return("Zero") ELSE Return("Negative")
           ELSE Goto("PrecisionGuard")
    /\ UNCHANGED <<x, max_acceptable_norm_bound, gamma, relation, tau, s_sq, H, y, A, B,
                   ri, rj, m, norm_bound, last_norm_bound, iteration>>
    /\ UNCHANGED image_vars

\* the guard with >= in place of >
NormBoundTooLargeOrEqual(mx, s0) == RLeq(InvEpsilon, RMul(RMul(mx, mx), s0))

\* max_acceptable_norm_bound^2 * s_sq[0] > 1/epsilon
NormBoundTooLarge(mx, s0) == RLess(InvEpsilon, RMul(RMul(mx, mx), s0))

PrecisionGuard ==
    /\ pc = "PrecisionGuard"
    /\ s_sq' = SSq(x)
    /\ IF NormBoundTooLarge(max_acceptable_norm_bound, s_sq'[0])
       THEN Return("Precision")
       ELSE Goto("BuildH")
    /\ UNCHANGED <<x, max_acceptable_norm_bound, gamma, relation, tau, H, y, A, B,
                   ri, rj, m, norm_bound, last_norm_bound, iteration>>
    /\ UNCHANGED image_vars

\* the entry below the diagonal without the square root: -x[i]*x[j]/(s_sq[j]*s_sq[j+1])
HBelowNoRoot(v, s, i, j) == RDiv(RMul(RNeg(v[i]), v[j]), RMul(s[j], s[j + 1]))

\* -x[i]*x[j]/sqrt(s_sq[j]*s_sq[j+1])
HBelow(v, s, i, j) == RDiv(RMul(RNeg(v[i]), v[j]), RSqrt(RMul(s[j], s[j + 1])))

\* the n x (n-1) matrix H of the lower trapezoidal decomposition
BuildHx(v, s) ==
    [i \in DOMAIN v |->
        [j \in 0 .. Size(v) - 2 |->
            IF i < j THEN Zero
            ELSE IF i = j THEN RSqrt(RDiv(s[i + 1], s[i]))
            ELSE HBelow(v, s, i, j)]]

BuildH ==
    /\ pc = "BuildH"
    /\ H' = BuildHx(x, s_sq)
    /\ Goto("CheckHNorm")
    /\ UNCHANGED <<x, max_acceptable_norm_bound, gamma, relation, tau, s_sq, y, A, B,
                   ri, rj, m, norm_bound, last_norm_bound, iteration>>
    /\ UNCHANGED image_vars

\* sum of f[lo..hi] accumulated left to right from acc
RECURSIVE SumFrom(_, _, _, _)
SumFrom(f, lo, hi, acc) ==
    IF lo > hi THEN acc ELSE SumFrom(f, lo + 1, hi, RAdd(acc, f[lo]))

\* H.squaredNorm(): the squares of the entries, column by column
SquaredNorm(h) ==
    LET rows == Size(h)
        cols == rows - 1
        sq   == [k \in 0 .. rows * cols - 1 |->
                    RMul(h[k % rows][k \div rows], h[k % rows][k \div rows])]
    IN  SumFrom(sq, 0, rows * cols - 1, Zero)

\* abs(Hnorm_sq/(n-1) - 1) > sqrt(epsilon)
HNormFails(h) ==
    RLess(SqrtEpsilon, RAbs(RSub(RDiv(SquaredNorm(h), FromInt(Size(h) - 1)), One)))

CheckHNorm ==
    /\ pc = "CheckHNorm"
    /\ IF HNormFails(H) THEN Return("HNorm") ELSE Goto("InitY")
    /\ UNCHANGED <<x, max_acceptable_norm_bound, gamma, relation, tau, s_sq, H, y, A, B,
                   ri, rj, m, norm_bound, last_norm_bound, iteration>>
    /\ UNCHANGED image_vars

\* the normalisation without the square root
NormalisedYNoRoot(v, s) == [i \in DOMAIN v |-> RDiv(v[i], s[0])]

\* y[i] = x[i]/sqrt(s_sq[0])
NormalisedY(v, s) == [i \in DOMAIN v |-> RDiv(v[i], RSqrt(s[0]))]

\* the scan that keeps the last hit: the greatest i with abs(v[i]) < bound
FirstSmallLast(v, bound, i) ==
    LET S == {k \in i .. Size(v) - 1 : RLess(RAbs(v[k]), bound)}
    IN  IF S = {} THEN Size(v) ELSE CHOOSE k \in S : \A j \in S : j <= k

\* first i with abs(y[i]) < epsilon, n if none
RECURSIVE FirstSmall(_, _, _)
FirstSmall(v, bound, i) ==
    IF i >= Size(v) THEN i
    ELSE IF RLess(RAbs(v[i]), bound) THEN i
    ELSE FirstSmall(v, bound, i + 1)

InitY ==
    /\ pc = "InitY"
    /\ y' = NormalisedY(x, s_sq)
    /\ IF FirstSmall(y', Epsilon, 0) < n THEN Return("YSmall") ELSE Goto("CheckYClose")
    /\ UNCHANGED <<x, max_acceptable_norm_bound, gamma, relation, tau, s_sq, H, A, B,
                   ri, rj, m, norm_bound, last_norm_bound, iteration>>
    /\ UNCHANGED image_vars

\* position of a positive Real in the increasing enumeration of the positive Reals
Ordinal(a) == a.e * 2^(P - 1) + a.m

\* boost::math::float_distance(a, b) for positive a, b: representable steps from a to b
FloatDistance(a, b) == Ordinal(b) - Ordinal(a)

\* first i >= 1 with |float_distance(y[i], y[i-1])| <= 2, n if none
RECURSIVE FirstClose(_, _)
FirstClose(v, i) ==
    IF i >= Size(v) THEN i
    ELSE IF Abs(FloatDistance(v[i], v[i - 1])) <= 2 THEN i
    ELSE FirstClose(v, i + 1)

\* the indices of y read when the closeness test fires at i: y[i] and y[i-1] by
\* float_distance, y[i] and y[i+1] by the diagnostic
CloseReads(i) == {i - 1, i, i + 1}

\* the diagnostic of the closeness test reads y[i+1]; for i = n-1 that index is
\* outside y: the build either aborts on Eigen's index assertion or reads on and returns
CheckYClose ==
    /\ pc = "CheckYClose"
    /\ LET i == FirstClose(y, 1)
       IN  IF i < n
           THEN \/ Return("YClose")
                \/ /\ ~(CloseReads(i) \subseteq 0 .. n - 1)
                   /\ pc' = "done"
                   /\ exit' = "Abort"
                   /\ cerr' = cerr
           ELSE Goto("CheckYH")
    /\ UNCHANGED <<x, max_acceptable_norm_bound, gamma, relation, tau, s_sq, H, y, A, B,
                   ri, rj, m, norm_bound, last_norm_bound, iteration>>
    /\ UNCHANGED image_vars

\* (y.transpose()*H)[j]
YTimesH(v, h, j) ==
    SumFrom([i \in DOMAIN v |-> RMul(v[i], h[i][j])], 0, Size(v) - 1, Zero)

\* some column j has abs(v[j])/(n-1) > sqrt(epsilon)
YHFails(v, h) ==
    \E j \in 0 .. Size(v) - 2 :
        RLess(SqrtEpsilon, RDiv(RAbs(YTimesH(v, h, j)), FromInt(Size(v) - 1)))

CheckYH ==
    /\ pc = "CheckYH"
    /\ IF YHFails(y, H) THEN Return("YH") ELSE Goto("CreateLedger")
    /\ UNCHANGED <<x, max_acceptable_norm_bound, gamma, relation, tau, s_sq, H, y, A, B,
                   ri, rj, m, norm_bound, last_norm_bound, iteration>>
    /\ UNCHANGED image_vars

\* Eigen::Matrix<int64_t, ...>::Identity(n, n)
Identity(k) == [i \in 0 .. k - 1 |-> [j \in 0 .. k - 1 |-> IF i = j THEN 1 ELSE 0]]

CreateLedger ==
    /\ pc = "CreateLedger"
    /\ A' = Identity(n)
    /\ B' = Identity(n)
    /\ ri' = 1
    /\ rj' = 0
    /\ Goto("InitialReduce")
    /\ UNCHANGED <<x, max_acceptable_norm_bound, gamma, relation, tau, s_sq, H, y,
                   m, norm_bound, last_norm_bound, iteration>>
    /\ UNCHANGED image_vars

\* the quotient cast to the integer without std::round: truncated towards zero
MultiplierTruncated(h, i, j) ==
    LET q == RDiv(h[i][j], h[j][j])
    IN  IF q.m = 0 THEN 0
        ELSE IF q.e >= 0 THEN q.m * 2^(q.e)
        ELSE IF -q.e > P THEN 0
        ELSE Sgn(q.m) * (Abs(q.m) \div 2^(-q.e))

\* t = round(H(i,j)/H(j,j)) as the integer tint
Multiplier(h, i, j) == RoundInt(RDiv(h[i][j], h[j][j]))

\* the least and the greatest value of the integer type
IntMin == -(2^(IntBits - 1))

IntMax == 2^(IntBits - 1) - 1

FitsInt(v) == IntMin <= v /\ v <= IntMax

\* signed arithmetic that leaves the range: the two's complement result
Wrap(v) == ((v - IntMin) % 2^IntBits) + IntMin

\* static_cast<int64_t>(t): the value when it fits; otherwise undefined, and
\* the hardware conversions give the least integer or the saturated one
Cast(t) ==
    IF FitsInt(t) THEN {t}
    ELSE IF t > 0 THEN {IntMin, IntMax}
    ELSE {IntMin}

\* static_cast<int64_t>(t) for t infinite or NaN: undefined as well; the
\* hardware conversions give the least integer, the saturated one, or 0 for NaN
CastNonFinite(t) ==
    IF IsNaN(t) THEN {IntMin, 0}
    ELSE IF t = PosInf THEN {IntMin, IntMax}
    ELSE {IntMin}

\* H(i,k) = H(i,k) - t*H(j,k) for k = 0..j
ReduceRowH(h, i, j, t) ==
    [h EXCEPT ![i] = [k \in DOMAIN h[i] |->
                        IF k <= j THEN RSub(h[i][k], RMul(t, h[j][k])) ELSE h[i][k]]]

\* A(i,k) = A(i,k) - tint*A(j,k) for every k
ReduceRowA(a, i, j, t) ==
    [a EXCEPT ![i] = [k \in DOMAIN a[i] |-> Wrap(a[i][k] - t * a[j][k])]]

\* B(k,j) = B(k,j) + tint*B(k,i) for every k
ReduceColB(b, i, j, t) ==
    [k \in DOMAIN b |-> [b[k] EXCEPT ![j] = Wrap(b[k][j] + t * b[k][i])]]

\* the update of y with the sign of the row update of H
ReduceYMinus(v, i, j, t) == [v EXCEPT ![j] = RSub(v[j], RMul(t, v[i]))]

\* y[j] += t*y[i]
ReduceY(v, i, j, t) == [v EXCEPT ![j] = RAdd(v[j], RMul(t, v[i]))]

\* the pass for the pair (i, j) leaves the range of the integer type: in the
\* cast of t, in a product tint*A(j,k) or tint*B(k,i), or in the sum with it
Overflows(i, j) ==
    IF ~IsFinite(RDiv(H[i][j], H[j][j])) THEN TRUE
    ELSE LET t == Multiplier(H, i, j)
         IN  \/ ~FitsInt(t)
             \/ \E k \in 0 .. n - 1 :
                   \/ ~FitsInt(t * A[j][k]) \/ ~FitsInt(A[i][k] - t * A[j][k])
                   \/ ~FitsInt(t * B[k][i]) \/ ~FitsInt(B[k][j] + t * B[k][i])

\* one pass of the body of the reduction loops for the pair (i, j)
ReduceStep(i, j) ==
    LET q == RDiv(H[i][j], H[j][j])
        t == IF IsFinite(q) THEN FromInt(Multiplier(H, i, j)) ELSE q
    IN  \E tint \in (IF IsFinite(q) THEN Cast(Multiplier(H, i, j)) ELSE CastNonFinite(q)) :
          IF tint = 0
          THEN UNCHANGED <<H, y, A, B>>
          ELSE /\ H' = ReduceRowH(H, i, j, t)
               /\ A' = ReduceRowA(A, i, j, tint)
               /\ B' = ReduceColB(B, i, j, tint)
               /\ y' = ReduceY(y, i, j, t)

\* H(j,j) = 0 makes H(i,j)/H(j,j) infinite or NaN and its conversion to int64_t
\* undefined, as is signed arithmetic that leaves the range: a Real whose
\* division by zero throws, or a build that traps on either, stops here
Undefined ==
    /\ pc' = "done"
    /\ exit' = "Undefined"
    /\ UNCHANGED <<cerr, H, y, A, B, ri, rj>>

\* for (i = 1; i < n; ++i) for (j = i-1; j >= 0; --j)
InitialReduce ==
    /\ pc = "InitialReduce"
    /\ \/ /\ ReduceStep(ri, rj)
          /\ IF rj > 0
             THEN ri' = ri /\ rj' = rj - 1 /\ Goto("InitialReduce")
             ELSE IF ri + 1 < n
             THEN ri' = ri + 1 /\ rj' = ri /\ Goto("InitialReduce")
             ELSE ri' = ri /\ rj' = rj /\ Goto("InitNormBound")
       \/ Overflows(ri, rj) /\ Undefined
    /\ UNCHANGED <<x, max_acceptable_norm_bound, gamma, relation, tau, s_sq,
                   m, norm_bound, last_norm_bound, iteration>>
    /\ UNCHANGED image_vars

\* max_coeff = max over i < n-1 of abs(H(i,i)), from 0
RECURSIVE MaxCoeff(_, _, _)
MaxCoeff(h, i, mx) ==
    IF i > Size(h) - 2 THEN mx
    ELSE MaxCoeff(h, i + 1, IF RLess(mx, RAbs(h[i][i])) THEN RAbs(h[i][i]) ELSE mx)

\* the bound without the reciprocal: max_coeff itself
NormBoundNoReciprocal(h) == MaxCoeff(h, 0, Zero)

\* norm_bound = 1/max_coeff
NormBound(h) == RDiv(One, MaxCoeff(h, 0, Zero))

InitNormBound ==
    /\ pc = "InitNormBound"
    /\ \/ /\ norm_bound' = NormBound(H)
          /\ last_norm_bound' = norm_bound'
          /\ Goto("LoopGuard")
          /\ UNCHANGED <<H, y, A, B, ri, rj>>
       \/ /\ MaxCoeff(H, 0, Zero) = Zero
          /\ Undefined /\ UNCHANGED <<norm_bound, last_norm_bound>>
    /\ iteration' = 0
    /\ UNCHANGED <<x, max_acceptable_norm_bound, gamma, relation, tau, s_sq, m>>
    /\ UNCHANGED image_vars

\* the loop that runs one more round: while (norm_bound <= 2*max_acceptable_norm_bound)
LoopGuardLate ==
    /\ pc = "LoopGuard"
    /\ IF RLeq(norm_bound, RMul(FromInt(2), max_acceptable_norm_bound))
       THEN iteration < MaxIter /\ Goto("SelectPivot")
       ELSE pc' = "done" /\ exit' = "Bound" /\ cerr' = cerr
    /\ UNCHANGED <<x, max_acceptable_norm_bound, gamma, relation, tau, s_sq, H, y, A, B,
                   ri, rj, m, norm_bound, last_norm_bound, iteration>>
    /\ UNCHANGED image_vars

\* while (norm_bound < max_acceptable_norm_bound), and the return after the loop
LoopGuard ==
    /\ pc = "LoopGuard"
    /\ IF RLess(norm_bound, max_acceptable_norm_bound)
       THEN iteration < MaxIter /\ Goto("SelectPivot")
       ELSE pc' = "done" /\ exit' = "Bound" /\ cerr' = cerr
    /\ UNCHANGED <<x, max_acceptable_norm_bound, gamma, relation, tau, s_sq, H, y, A, B,
                   ri, rj, m, norm_bound, last_norm_bound, iteration>>
    /\ UNCHANGED image_vars

\* the selection with the comparison reversed: the first i with the term minimal
RECURSIVE PivotSmallest(_, _, _, _, _, _)
PivotSmallest(h, g, i, gammai, max_term, mm) ==
    IF i > Size(h) - 2 THEN mm
    ELSE LET term == RMul(gammai, RAbs(h[i][i]))
         IN  IF mm < 0 \/ RLess(term, max_term)
             THEN PivotSmallest(h, g, i + 1, RMul(gammai, g), term, i)
             ELSE PivotSmallest(h, g, i + 1, RMul(gammai, g), max_term, mm)

\* the selection without the weights gamma^(i+1): |H(i,i)| maximal
RECURSIVE PivotUnweighted(_, _, _, _, _, _)
PivotUnweighted(h, g, i, gammai, max_term, mm) ==
    IF i > Size(h) - 2 THEN mm
    ELSE LET term == RAbs(h[i][i])
         IN  IF RLess(max_term, term)
             THEN PivotUnweighted(h, g, i + 1, gammai, term, i)
             ELSE PivotUnweighted(h, g, i + 1, gammai, max_term, mm)

\* m with gamma^(i+1)*|H(i,i)| maximal, the first such i; -1 if every term is 0
RECURSIVE Pivot(_, _, _, _, _, _)
Pivot(h, g, i, gammai, max_term, mm) ==
    IF i > Size(h) - 2 THEN mm
    ELSE LET term == RMul(gammai, RAbs(h[i][i]))
         IN  IF RLess(max_term, term)
             THEN Pivot(h, g, i + 1, RMul(gammai, g), term, i)
             ELSE Pivot(h, g, i + 1, RMul(gammai, g), max_term, mm)

SelectPivot ==
    /\ pc = "SelectPivot"
    /\ m' = Pivot(H, gamma, 0, gamma, Zero, -1)
    /\ IF m' = n - 1 THEN Return("PivotHigh")
       ELSE IF m' < 0 THEN Return("PivotLow")
       ELSE Goto("Swap")
    /\ UNCHANGED <<x, max_acceptable_norm_bound, gamma, relation, tau, s_sq, H, y, A, B,
                   ri, rj, norm_bound, last_norm_bound, iteration>>
    /\ UNCHANGED image_vars

\* entries (rows) k and k+1 of f exchanged
SwapRows(f, k) == [f EXCEPT ![k] = f[k + 1], ![k + 1] = f[k]]

\* columns k and k+1 of b exchanged
SwapCols(b, k) == [i \in DOMAIN b |-> [b[i] EXCEPT ![k] = b[i][k + 1], ![k + 1] = b[i][k]]]

\* the exchange carried out on the caller's vector as well
SwapWithX ==
    /\ pc = "Swap"
    /\ y' = SwapRows(y, m)
    /\ x' = SwapRows(x, m)
    /\ A' = SwapRows(A, m)
    /\ H' = SwapRows(H, m)
    /\ B' = SwapCols(B, m)
    /\ Goto("RemoveCorner")
    /\ UNCHANGED <<max_acceptable_norm_bound, gamma, relation, tau, s_sq,
                   ri, rj, m, norm_bound, last_norm_bound, iteration>>
    /\ UNCHANGED image_vars

\* "2. Exchange the entries of y indexed m and m + 1", and the rows and columns
Swap ==
    /\ pc = "Swap"
    /\ y' = SwapRows(y, m)
    /\ A' = SwapRows(A, m)
    /\ H' = SwapRows(H, m)
    /\ B' = SwapCols(B, m)
    /\ Goto("RemoveCorner")
    /\ UNCHANGED <<x, max_acceptable_norm_bound, gamma, relation, tau, s_sq,
                   ri, rj, m, norm_bound, last_norm_bound, iteration>>
    /\ UNCHANGED image_vars

\* t0 = sqrt(H(m,m)^2 + H(m,m+1)^2)
CornerT0(h, k) == RSqrt(RAdd(RMul(h[k][k], h[k][k]), RMul(h[k][k + 1], h[k][k + 1])))

\* the rotation with the sign of t2 the same in both columns
RotateCornerSameSign(h, k) ==
    LET t0 == CornerT0(h, k)
        t1 == RDiv(h[k][k], t0)
        t2 == RDiv(h[k][k + 1], t0)
    IN  [i \in DOMAIN h |->
            IF i < k THEN h[i]
            ELSE [h[i] EXCEPT
                    ![k]     = RAdd(RMul(t1, h[i][k]), RMul(t2, h[i][k + 1])),
                    ![k + 1] = RAdd(RMul(t2, h[i][k]), RMul(t1, h[i][k + 1]))]]

\* the rotation of columns k, k+1 applied to rows k..n-1
RotateCorner(h, k) ==
    LET t0 == CornerT0(h, k)
        t1 == RDiv(h[k][k], t0)
        t2 == RDiv(h[k][k + 1], t0)
    IN  [i \in DOMAIN h |->
            IF i < k THEN h[i]
            ELSE [h[i] EXCEPT
                    ![k]     = RAdd(RMul(t1, h[i][k]), RMul(t2, h[i][k + 1])),
                    ![k + 1] = RAdd(RMul(RNeg(t2), h[i][k]), RMul(t1, h[i][k + 1]))]]

\* if (m < n - 2) { ... } and the initialisation of the reduction loop
RemoveCorner ==
    /\ pc = "RemoveCorner"
    /\ IF m < n - 2
       THEN \/ H' = RotateCorner(H, m) /\ ri' = m + 1 /\ rj' = m /\ Goto("ReduceH")
            \/ /\ CornerT0(H, m) = Zero
               /\ pc' = "done" /\ exit' = "Undefined" /\ UNCHANGED <<cerr, H, ri, rj>>
       ELSE H' = H /\ ri' = m + 1 /\ rj' = m /\ Goto("ReduceH")
    /\ UNCHANGED <<x, max_acceptable_norm_bound, gamma, relation, tau, s_sq, y, A, B,
                   m, norm_bound, last_norm_bound, iteration>>
    /\ UNCHANGED image_vars

Min(a, b) == IF a < b THEN a ELSE b

\* for (i = m+1; i < n; ++i) for (j = min(i-1, m+1); j >= 0; --j)
ReduceH ==
    /\ pc = "ReduceH"
    /\ \/ /\ ReduceStep(ri, rj)
          /\ IF rj > 0
             THEN ri' = ri /\ rj' = rj - 1 /\ Goto("ReduceH")
             ELSE IF ri + 1 < n
             THEN ri' = ri + 1 /\ rj' = Min(ri, m + 1) /\ Goto("ReduceH")
             ELSE ri' = ri /\ rj' = rj /\ Goto("RelationTest")
       \/ Overflows(ri, rj) /\ Undefined
    /\ UNCHANGED <<x, max_acceptable_norm_bound, gamma, relation, tau, s_sq,
                   m, norm_bound, last_norm_bound, iteration>>
    /\ UNCHANGED image_vars

\* column i of b
Col(b, i) == [k \in DOMAIN b |-> b[k][i]]

\* residual += bcol[j]*x[j], over j in order
Residual(r, v) ==
    SumFrom([j \in DOMAIN v |-> RMul(FromInt(r[j]), v[j])], 0, Size(v) - 1, Zero)

\* absum += abs(bcol[j]*x[j]), over j in order
AbsSum(r, v) ==
    SumFrom([j \in DOMAIN v |-> RAbs(RMul(FromInt(r[j]), v[j]))], 0, Size(v) - 1, Zero)

\* 16*epsilon*absum
TolerableResidual(r, v) == RMul(RMul(FromInt(16), Epsilon), AbsSum(r, v))

\* the residual test against 16*absum, epsilon forgotten
LargeResidualNoEpsilon(r, v) ==
    RLess(RMul(FromInt(16), AbsSum(r, v)), RAbs(Residual(r, v)))

LargeResidual(r, v) == RLess(TolerableResidual(r, v), RAbs(Residual(r, v)))

\* the pairs {bcol[j], x[j]} with bcol[j] != 0, pushed back for j = 0..n-1
RECURSIVE Pairs(_, _, _)
Pairs(r, v, j) ==
    IF j < 0 THEN <<>>
    ELSE IF r[j] # 0 THEN Append(Pairs(r, v, j - 1), <<r[j], v[j]>>)
    ELSE Pairs(r, v, j - 1)

\* "Look for a solution": the first i with abs(y[i]) < epsilon^(15/16)
RelationTest ==
    /\ pc = "RelationTest"
    /\ LET i == FirstSmall(y, RelationThreshold, 0)
       IN  IF i < n
           THEN /\ relation' = Pairs(Col(B, i), x, n - 1)
                /\ pc' = "done"
                /\ exit' = "Relation"
                /\ cerr' = IF LargeResidual(Col(B, i), x)
                           THEN cerr \cup {"LargeResidual"}
                           ELSE cerr
           ELSE relation' = relation /\ Goto("UpdateNormBound")
    /\ UNCHANGED <<x, max_acceptable_norm_bound, gamma, tau, s_sq, H, y, A, B,
                   ri, rj, m, norm_bound, last_norm_bound, iteration>>
    /\ UNCHANGED image_vars

\* "Computing the norm bound" at the end of a round
UpdateNormBound ==
    /\ pc = "UpdateNormBound"
    /\ \/ /\ norm_bound' = NormBound(H)
          /\ cerr' = IF RLess(norm_bound', last_norm_bound)
                     THEN cerr \cup {"NormBoundDecreased"}
                     ELSE cerr
          /\ last_norm_bound' = norm_bound'
          /\ iteration' = iteration + 1
          /\ pc' = "LoopGuard"
          /\ UNCHANGED <<exit, H, y, A, B, ri, rj>>
       \/ /\ MaxCoeff(H, 0, Zero) = Zero
          /\ Undefined /\ UNCHANGED <<norm_bound, last_norm_bound, iteration>>
    /\ UNCHANGED <<x, max_acceptable_norm_bound, gamma, relation, tau, s_sq, m>>
    /\ UNCHANGED image_vars

(***************************************************************************)
(* The advertised number of rounds, computed once H is built and printed   *)
(* with every round; it does not take part in the control of the loop.     *)
(***************************************************************************)
\* ln 2 to 24 fractional bits, rounded to Real
Ln2 == Rnd(11629080, -24)

\* 2*(w + w^3/3 + w^5/5 + w^7/7 + w^9/9) = ln((1+w)/(1-w)) for |w| <= 0.172
LogSeries(w) ==
    LET w2 == RMul(w, w)
        w3 == RMul(w, w2)
        w5 == RMul(w3, w2)
        w7 == RMul(w5, w2)
        w9 == RMul(w7, w2)
        s  == RAdd(RAdd(RAdd(RAdd(RDiv(w9, FromInt(9)), RDiv(w7, FromInt(7))),
                             RDiv(w5, FromInt(5))), RDiv(w3, FromInt(3))), w)
    IN  RMul(FromInt(2), s)

\* log(a) for a > 0: a = z*2^k with 1/sqrt(2) < z <= sqrt(2), log(a) = k*ln 2 + ln z
RLog(a) ==
    LET hi == a.m * a.m > 2^(2 * P - 1)
        k  == IF hi THEN a.e + P ELSE a.e + P - 1
        z  == [m |-> a.m, e |-> IF hi THEN -P ELSE 1 - P]
        w  == RDiv(RSub(z, One), RAdd(z, One))
    IN  RAdd(RMul(FromInt(k), Ln2), LogSeries(w))

\* pow(g, k) for an integer k >= 0
RECURSIVE RPow(_, _)
RPow(g, k) == IF k = 0 THEN One ELSE RMul(RPow(g, k - 1), g)

\* std::ceil followed by the conversion to int64_t
CeilInt(a) ==
    IF a.m = 0 THEN 0
    ELSE IF a.e >= 0 THEN a.m * 2^(a.e)
    ELSE IF -a.e > P THEN (IF a.m > 0 THEN 1 ELSE 0)
    ELSE IF a.m > 0 THEN (a.m + 2^(-a.e) - 1) \div 2^(-a.e)
    ELSE -((-a.m) \div 2^(-a.e))

\* binomial_coefficient<Real>(k, 2)
Binomial2(k) == (k * (k - 1)) \div 2

\* ceil(binomial(n,2)*log(pow(gamma, n-1)*max_acceptable_norm_bound)/log(tau))
ExpectedIterations(k, g, mx, t) ==
    CeilInt(RDiv(RMul(FromInt(Binomial2(k)), RLog(RMul(RPow(g, k - 1), mx))), RLog(t)))

expected_iterations == ExpectedIterations(n, gamma, max_acceptable_norm_bound, tau)

Next ==
    \/ CheckSorted
    \/ CheckGamma
    \/ CheckTau
    \/ CheckSize
    \/ CheckEntries
    \/ PrecisionGuard
    \/ BuildH
    \/ CheckHNorm
    \/ InitY
    \/ CheckYClose
    \/ CheckYH
    \/ CreateLedger
    \/ InitialReduce
    \/ InitNormBound
    \/ LoopGuard
    \/ SelectPivot
    \/ Swap
    \/ RemoveCorner
    \/ ReduceH
    \/ RelationTest
    \/ UpdateNormBound

Spec == Init /\ [][Next]_vars

(***************************************************************************)
(* my_concurrency::parallel_for(start, end, parallel_function).            *)
(***************************************************************************)
\* bits of index_type, an unsigned integer type
IndexBits == 4

IndexMax == 2^IndexBits - 1

\* arithmetic of index_type: modulo 2^IndexBits
IndexWrap(v) == v % 2^IndexBits

\* largest std::thread::hardware_concurrency() explored
MaxHint == 5

number_of_threads_total ==
    IF number_of_threads_hint = 0 THEN 4 ELSE number_of_threads_hint

\* "Use only 3/4 of the available cores."
number_of_threads == number_of_threads_total - (number_of_threads_total \div 4)

\* std::round(a / static_cast<float>(b)): the nearest integer, halves upwards;
\* the float quotient of two small integers is a half only when a/b is
RoundedQuotient(a, b) == (2 * a + b) \div (2 * b)

\* index_type n = index_type(end - start) + index_type(1), then
\* slice = max(round(n / number_of_threads), 1)
SliceSize ==
    LET nn == IndexWrap(IndexWrap(end - start) + 1)
        sl == RoundedQuotient(nn, number_of_threads)
    IN  IF sl < 1 THEN 1 ELSE sl

\* a thread of the pool running launch_range(lo, hi): i is the loop variable
\* of launch_range, pc the statement of parallel_function it is at, and the
\* other fields are the locals of parallel_function; loaded is the value an
\* increment has read and not yet stored, 0 outside an increment
Thread(lo, hi) ==
    [index_lo |-> lo, index_hi |-> hi, i |-> lo, pc |-> "for",
     i_col |-> 0, iteration_result |-> 0, loaded |-> 0]

\* launch_range has left its loop: the thread can be joined
Finished(t) == t.pc = "for" /\ ~(t.i < t.index_hi)

\* what parallel_for leaves alone: the state of pslq and of the generator
ForFrame ==
    UNCHANGED <<vars, number_of_threads_hint, start, end, config, max_iterations>>

\* the statements before the launching loop
Enter ==
    /\ at = "entry"
    /\ slice' = SliceSize
    /\ i1' = start
    /\ i2' = Min(IndexWrap(start + slice'), end)
    /\ launched' = 0
    /\ at' = "launch"
    /\ ForFrame
    /\ UNCHANGED <<pool, joined, calls, mandelbrot_iteration_lock,
                   unordered_parallel_row_count, mandelbrot_iteration_matrix,
                   mandelbrot_color_histogram>>

\* for (i = 0; (i + 1 < number_of_threads) && (i1 < end); ++i)
MoreToLaunch == IndexWrap(launched + 1) < number_of_threads /\ i1 < end

\* the body of the launching loop
Launch ==
    /\ at = "launch"
    /\ MoreToLaunch
    /\ pool' = Append(pool, Thread(i1, i2))
    /\ i1' = i2
    /\ i2' = Min(IndexWrap(i2 + slice), end)
    /\ launched' = IndexWrap(launched + 1)
    /\ ForFrame
    /\ UNCHANGED <<slice, joined, at, calls, mandelbrot_iteration_lock,
                   unordered_parallel_row_count, mandelbrot_iteration_matrix,
                   mandelbrot_color_histogram>>

\* the end of the launching loop and if (i1 < end) pool.emplace_back(launch_range, i1, end)
LaunchRest ==
    /\ at = "launch"
    /\ ~MoreToLaunch
    /\ pool' = IF i1 < end THEN Append(pool, Thread(i1, end)) ELSE pool
    /\ joined' = 0
    /\ at' = "join"
    /\ ForFrame
    /\ UNCHANGED <<slice, i1, i2, launched, calls, mandelbrot_iteration_lock,
                   unordered_parallel_row_count, mandelbrot_iteration_matrix,
                   mandelbrot_color_histogram>>

\* thread_in_pool.join() returns once the thread has finished
Join ==
    /\ at = "join"
    /\ joined < Len(pool)
    /\ Finished(pool[joined + 1])
    /\ joined' = joined + 1
    /\ ForFrame
    /\ UNCHANGED <<slice, i1, i2, launched, pool, at, calls, mandelbrot_iteration_lock,
                   unordered_parallel_row_count, mandelbrot_iteration_matrix,
                   mandelbrot_color_histogram>>

\* the end of the joining loop and of parallel_for
ReturnFor ==
    /\ at = "join"
    /\ joined = Len(pool)
    /\ at' = "returned"
    /\ ForFrame
    /\ UNCHANGED <<slice, i1, i2, launched, pool, joined, calls, mandelbrot_iteration_lock,
                   unordered_parallel_row_count, mandelbrot_iteration_matrix,
                   mandelbrot_color_histogram>>

\* parallel_function(i); ++i in thread w, for a parallel_function that does
\* nothing but be called
Invoke(w) ==
    /\ pool[w].pc = "for"
    /\ pool[w].i < pool[w].index_hi
    /\ calls' = [calls EXCEPT ![pool[w].i] = @ + 1]
    /\ pool' = [pool EXCEPT ![w].i = IndexWrap(@ + 1)]
    /\ ForFrame
    /\ UNCHANGED <<slice, i1, i2, launched, joined, at, mandelbrot_iteration_lock,
                   unordered_parallel_row_count, mandelbrot_iteration_matrix,
                   mandelbrot_color_histogram>>

\* pslq is not running
NoPslq ==
    /\ x = <<>>
    /\ max_acceptable_norm_bound = Zero
    /\ gamma = Zero
    /\ pc = "done"
    /\ exit = ""
    /\ cerr = {}
    /\ relation = <<>>
    /\ tau = Zero
    /\ s_sq = <<>>
    /\ H = <<>>
    /\ y = <<>>
    /\ A = <<>>
    /\ B = <<>>
    /\ ri = 0
    /\ rj = 0
    /\ m = -1
    /\ norm_bound = Zero
    /\ last_norm_bound = Zero
    /\ iteration = 0

\* a call of parallel_for with any start <= end, on any hardware
InitFor ==
    /\ NoPslq
    /\ number_of_threads_hint \in 0 .. MaxHint
    /\ start \in 0 .. IndexMax
    /\ end \in start .. IndexMax
    /\ slice = 0
    /\ i1 = 0
    /\ i2 = 0
    /\ launched = 0
    /\ pool = <<>>
    /\ joined = 0
    /\ at = "entry"
    /\ calls = [k \in 0 .. IndexMax |-> 0]
    /\ config = <<>>
    /\ max_iterations = 0
    /\ mandelbrot_iteration_lock = FALSE
    /\ unordered_parallel_row_count = 0
    /\ mandelbrot_iteration_matrix = <<>>
    /\ mandelbrot_color_histogram = <<>>

NextFor ==
    \/ Enter
    \/ Launch
    \/ LaunchRest
    \/ Join
    \/ ReturnFor
    \/ \E w \in 1 .. Len(pool) : Invoke(w)

SpecFor == InitFor /\ [][NextFor]_<<vars, image_vars>>

(***************************************************************************)
(* mandelbrot_generator: its construction and generate_mandelbrot_image,   *)
(* up to the return of parallel_for.  NumericType is modelled by Real.     *)
(***************************************************************************)
\* widest and tallest image explored, in pixels
MaxCols == 2

MaxRows == 3

\* largest MaxIterations explored
MaxEscape == 2

\* my_step = ldexp(1, MandelbrotFractionalResolution), the resolution being -2
Step == Rnd(1, -2)

\* static_cast<std::uint_fast32_t>(a) for a >= 0: the integral part
Truncated(a) ==
    IF a.e >= 0 THEN a.m * 2^(a.e)
    ELSE IF -a.e > P THEN 0
    ELSE a.m \div 2^(-a.e)

\* my_width / step and my_height / step as integers
integral_width == Truncated(RDiv(RSub(config.x_hi, config.x_lo), Step))

integral_height == Truncated(RDiv(RSub(config.y_hi, config.y_lo), Step))

RECURSIVE XCoord(_)
\* x_coord after k additions of the step
XCoord(k) == IF k = 0 THEN config.x_lo ELSE RAdd(XCoord(k - 1), Step)

RECURSIVE YCoord(_)
\* y_coord after k subtractions of the step
YCoord(k) == IF k = 0 THEN config.y_hi ELSE RSub(YCoord(k - 1), Step)

x_values == [k \in 0 .. integral_width - 1 |-> XCoord(k)]

y_values == [k \in 0 .. integral_height - 1 |-> YCoord(k)]

four == FromInt(4)

RECURSIVE EscapeLoop(_, _, _, _, _, _, _)
\* while ((iteration_result < max_iterations) && ((zr2 + zi2) < four)) { ... }
\* from the state (zr, zi, zr2, zi2, iteration_result) for the point (cx, cy)
EscapeLoop(zr, zi, zr2, zi2, it, cx, cy) ==
    IF it < max_iterations /\ RLess(RAdd(zr2, zi2), four)
    THEN LET zi_1 == RAdd(RAdd(RMul(zi, zr), RMul(zi, zr)), cy)
             zr_1 == RAdd(RSub(zr2, zi2), cx)
         IN  EscapeLoop(zr_1, zi_1, RMul(zr_1, zr_1), RMul(zi_1, zi_1), it + 1, cx, cy)
    ELSE it

\* iteration_result of the pixel in column c of row r
Escape(c, r) == EscapeLoop(Zero, Zero, Zero, Zero, 0, x_values[c], y_values[r])

\* the spin loop ends without waiting although the flag is set
LockNeverHeld == TRUE

\* while (mandelbrot_iteration_lock.test_and_set()) { ; } ends: the flag was clear
LockAcquired == ~mandelbrot_iteration_lock

\* what a thread of the pool leaves alone
ThreadFrame ==
    /\ ForFrame
    /\ UNCHANGED <<slice, i1, i2, launched, joined, at, calls>>

\* the loop test of launch_range and the first spin loop of parallel_function(j_row)
LockForCount(w) ==
    /\ pool[w].pc = "for"
    /\ pool[w].i < pool[w].index_hi
    /\ LockAcquired
    /\ mandelbrot_iteration_lock' = TRUE
    /\ pool' = [pool EXCEPT ![w].pc = "count"]
    /\ ThreadFrame
    /\ UNCHANGED <<unordered_parallel_row_count, mandelbrot_iteration_matrix,
                   mandelbrot_color_histogram>>

\* ++unordered_parallel_row_count: the load
LoadRowCount(w) ==
    /\ pool[w].pc = "count"
    /\ pool' = [pool EXCEPT ![w].loaded = unordered_parallel_row_count,
                            ![w].pc = "count_store"]
    /\ ThreadFrame
    /\ UNCHANGED <<mandelbrot_iteration_lock, unordered_parallel_row_count,
                   mandelbrot_iteration_matrix, mandelbrot_color_histogram>>

\* ++unordered_parallel_row_count: the store, and the progress line written
StoreRowCount(w) ==
    /\ pool[w].pc = "count_store"
    /\ unordered_parallel_row_count' = pool[w].loaded + 1
    /\ pool' = [pool EXCEPT ![w].loaded = 0, ![w].pc = "count_unlock"]
    /\ ThreadFrame
    /\ UNCHANGED <<mandelbrot_iteration_lock, mandelbrot_iteration_matrix,
                   mandelbrot_color_histogram>>

\* the thread t at the test of the column loop: with i_col < x_values.size() it
\* iterates the pixel and reaches the second spin loop, otherwise it ends the
\* row with ++i; the thread touches nothing shared on the way
Iterate(t) ==
    IF t.i_col < integral_width
    THEN [t EXCEPT !.iteration_result = Escape(t.i_col, t.i), !.pc = "pixel_lock"]
    ELSE [t EXCEPT !.i = IndexWrap(@ + 1), !.pc = "for"]

\* mandelbrot_iteration_lock.clear(), i_col = 0 and on to the next spin loop
UnlockAfterCount(w) ==
    /\ pool[w].pc = "count_unlock"
    /\ mandelbrot_iteration_lock' = FALSE
    /\ pool' = [pool EXCEPT ![w] = Iterate([@ EXCEPT !.i_col = 0])]
    /\ ThreadFrame
    /\ UNCHANGED <<unordered_parallel_row_count, mandelbrot_iteration_matrix,
                   mandelbrot_color_histogram>>

\* the second spin loop
LockForPixel(w) ==
    /\ pool[w].pc = "pixel_lock"
    /\ LockAcquired
    /\ mandelbrot_iteration_lock' = TRUE
    /\ pool' = [pool EXCEPT ![w].pc = "store"]
    /\ ThreadFrame
    /\ UNCHANGED <<unordered_parallel_row_count, mandelbrot_iteration_matrix,
                   mandelbrot_color_histogram>>

\* mandelbrot_iteration_matrix[i_col][j_row] = iteration_result
StoreIteration(w) ==
    /\ pool[w].pc = "store"
    /\ mandelbrot_iteration_matrix' =
          [mandelbrot_iteration_matrix EXCEPT ![pool[w].i_col][pool[w].i] =
                                                   pool[w].iteration_result]
    /\ pool' = [pool EXCEPT ![w].pc = "histogram"]
    /\ ThreadFrame
    /\ UNCHANGED <<mandelbrot_iteration_lock, unordered_parallel_row_count,
                   mandelbrot_color_histogram>>

\* ++mandelbrot_color_histogram[iteration_result]: the load
LoadHistogram(w) ==
    /\ pool[w].pc = "histogram"
    /\ pool' = [pool EXCEPT ![w].loaded =
                                mandelbrot_color_histogram[pool[w].iteration_result],
                            ![w].pc = "histogram_store"]
    /\ ThreadFrame
    /\ UNCHANGED <<mandelbrot_iteration_lock, unordered_parallel_row_count,
                   mandelbrot_iteration_matrix, mandelbrot_color_histogram>>

\* ++mandelbrot_color_histogram[iteration_result]: the store
StoreHistogram(w) ==
    /\ pool[w].pc = "histogram_store"
    /\ mandelbrot_color_histogram' =
          [mandelbrot_color_histogram EXCEPT ![pool[w].iteration_result] =
                                                  pool[w].loaded + 1]
    /\ pool' = [pool EXCEPT ![w].loaded = 0, ![w].pc = "pixel_unlock"]
    /\ ThreadFrame
    /\ UNCHANGED <<mandelbrot_iteration_lock, unordered_parallel_row_count,
                   mandelbrot_iteration_matrix>>

\* mandelbrot_iteration_lock.clear(), ++i_col and on to the next spin loop
UnlockAfterPixel(w) ==
    /\ pool[w].pc = "pixel_unlock"
    /\ mandelbrot_iteration_lock' = FALSE
    /\ pool' = [pool EXCEPT ![w] = Iterate([@ EXCEPT !.i_col = @ + 1])]
    /\ ThreadFrame
    /\ UNCHANGED <<unordered_parallel_row_count, mandelbrot_iteration_matrix,
                   mandelbrot_color_histogram>>

\* x_lo of the configurations explored
XLoVals == {FromInt(-2), Zero}

\* y_hi of the configurations explored
YHiVals == {One}

\* the configurations: a corner and a size in steps
Windows ==
    {[x_lo |-> a, x_hi |-> RAdd(a, RMul(FromInt(w), Step)),
      y_lo |-> RSub(b, RMul(FromInt(h), Step)), y_hi |-> b] :
        a \in XLoVals, b \in YHiVals, w \in 0 .. MaxCols, h \in 0 .. MaxRows}

\* std::thread::hardware_concurrency() of the machines explored: the hints
\* that give 3, 1 and 2 threads, and the largest
Hints == {0, 1, 2, MaxHint}

\* a generator as constructed, at the call of parallel_for(0, y_values.size(), ...)
InitImage ==
    /\ NoPslq
    /\ number_of_threads_hint \in Hints
    /\ config \in Windows
    /\ max_iterations \in 0 .. MaxEscape
    /\ start = 0
    /\ end = integral_height
    /\ slice = 0
    /\ i1 = 0
    /\ i2 = 0
    /\ launched = 0
    /\ pool = <<>>
    /\ joined = 0
    /\ at = "entry"
    /\ calls = <<>>
    /\ mandelbrot_iteration_lock = FALSE
    /\ unordered_parallel_row_count = 0
    /\ mandelbrot_iteration_matrix =
          [c \in 0 .. integral_width - 1 |-> [r \in 0 .. integral_height - 1 |-> 0]]
    /\ mandelbrot_color_histogram = [k \in 0 .. max_iterations |-> 0]

NextImage ==
    \/ Enter
    \/ Launch
    \/ LaunchRest
    \/ Join
    \/ ReturnFor
    \/ \E w \in 1 .. Len(pool) : LockForCount(w)
    \/ \E w \in 1 .. Len(pool) : LoadRowCount(w)
    \/ \E w \in 1 .. Len(pool) : StoreRowCount(w)
    \/ \E w \in 1 .. Len(pool) : UnlockAfterCount(w)
    \/ \E w \in 1 .. Len(pool) : LockForPixel(w)
    \/ \E w \in 1 .. Len(pool) : StoreIteration(w)
    \/ \E w \in 1 .. Len(pool) : LoadHistogram(w)
    \/ \E w \in 1 .. Len(pool) : StoreHistogram(w)
    \/ \E w \in 1 .. Len(pool) : UnlockAfterPixel(w)

SpecImage == InitImage /\ [][NextImage]_<<vars, image_vars>>

(***************************************************************************)
(* Exact integer arithmetic used to state the properties.                  *)
(***************************************************************************)
\* the n x n integer product a*b
MatMul(a, b) ==
    LET k == Size(a)
        RECURSIVE Dot(_, _, _)
        Dot(i, j, l) == IF l < 0 THEN 0 ELSE a[i][l] * b[l][j] + Dot(i, j, l - 1)
    IN  [i \in 0 .. k - 1 |-> [j \in 0 .. k - 1 |-> Dot(i, j, k - 1)]]

\* a Real with its mantissa reduced to an odd integer
RECURSIVE OddForm(_)
OddForm(a) ==
    IF a.m # 0 /\ a.m % 2 = 0 THEN OddForm([m |-> a.m \div 2, e |-> a.e + 1]) ELSE a

\* the least exponent of the odd forms of the entries of v
MinExp(v) ==
    CHOOSE e \in {OddForm(v[i]).e : i \in DOMAIN v} :
        \A i \in DOMAIN v : e <= OddForm(v[i]).e

\* v scaled by a common power of two to a vector of integers
Scaled(v) ==
    [i \in DOMAIN v |-> OddForm(v[i]).m * 2^(OddForm(v[i]).e - MinExp(v))]

RECURSIVE IntDot(_, _, _)
IntDot(r, w, j) == IF j < 0 THEN 0 ELSE r[j] * w[j] + IntDot(r, w, j - 1)

\* r is an integer relation of v: sum r[j]*v[j] = 0 exactly
IsExactRelation(r, v) == IntDot(r, Scaled(v), Size(v) - 1) = 0

RECURSIVE SumSq(_, _)
SumSq(r, j) == IF j < 0 THEN 0 ELSE r[j] * r[j] + SumSq(r, j - 1)

\* floor(a) and floor(a*a) for a Real a >= 0 (a*a exact)
Floor(a) == IF a.e >= 0 THEN a.m * 2^(a.e) ELSE IF -a.e > P THEN 0 ELSE a.m \div 2^(-a.e)

FloorSq(a) ==
    IF a.e >= 0 THEN (a.m * 2^(a.e)) * (a.m * 2^(a.e))
    ELSE IF -a.e > P THEN 0
    ELSE (a.m * a.m) \div 2^(-2 * a.e)

\* a*a is an integer
SqIsInt(a) == a.e >= 0 \/ (-a.e <= P /\ (a.m * a.m) % 2^(-2 * a.e) = 0)

\* the Euclidean norm of the integer vector r is at most / below the Real a >= 0
NormAtMost(r, a) == SumSq(r, Size(r) - 1) <= FloorSq(a)

NormBelow(r, a) ==
    IF SqIsInt(a) THEN SumSq(r, Size(r) - 1) < FloorSq(a) ELSE NormAtMost(r, a)

\* the coefficients of a returned relation
Coeffs(rel) == [j \in 0 .. Len(rel) - 1 |-> rel[j + 1][1]]

Entries(rel) == [j \in 0 .. Len(rel) - 1 |-> rel[j + 1][2]]

Started == A # <<>>

(***************************************************************************)
(* C1: after the initial reduction and after every reduce step and every   *)
(* swap of every round, A*B = I holds exactly, starting from A = B = I.    *)
(***************************************************************************)
C1_LedgerInverse == Started => MatMul(A, B) = Identity(n)

(***************************************************************************)
(* C2: every relation returned has a coefficient vector of Euclidean norm  *)
(* at most max_norm.                                                       *)
(***************************************************************************)
C2_RelationWithinMaxNorm ==
    exit = "Relation" => NormAtMost(Coeffs(relation), max_acceptable_norm_bound)

(***************************************************************************)
(* C3: when the call ends because the norm bound reached max_norm, x has   *)
(* no non-zero integer relation of Euclidean norm below max_norm.          *)
(***************************************************************************)
RelationsBelow(v, a) ==
    {r \in [DOMAIN v -> -Floor(a) .. Floor(a)] :
        /\ \E j \in DOMAIN v : r[j] # 0
        /\ NormBelow(r, a)
        /\ IsExactRelation(r, v)}

C3_BoundCertifies ==
    exit = "Bound" => RelationsBelow(x, max_acceptable_norm_bound) = {}

(***************************************************************************)
(* C4: a returned relation r has residual |sum r[j]*x[j]| of at most       *)
(* 16*epsilon*sum |r[j]*x[j]|.                                             *)
(***************************************************************************)
\* residual and absolute sum of the returned pairs, accumulated in Real
PairResidual(rel) ==
    SumFrom([j \in 0 .. Len(rel) - 1 |-> RMul(FromInt(rel[j + 1][1]), rel[j + 1][2])],
            0, Len(rel) - 1, Zero)

PairAbsSum(rel) ==
    SumFrom([j \in 0 .. Len(rel) - 1 |-> RAbs(RMul(FromInt(rel[j + 1][1]), rel[j + 1][2]))],
            0, Len(rel) - 1, Zero)

ResidualTolerable(rel) ==
    RLeq(RAbs(PairResidual(rel)), RMul(RMul(FromInt(16), Epsilon), PairAbsSum(rel)))

C4_ResidualTolerable == exit = "Relation" => ResidualTolerable(relation)

\* C4 as amended: the residual is tolerable or the large-residual diagnostic was written
C4_ResidualTolerableOrWarned ==
    exit = "Relation" => (ResidualTolerable(relation) \/ "LargeResidual" \in cerr)

C4_Witness ==
    /\ exit = "Relation"
    /\ ~ResidualTolerable(relation)
    /\ "LargeResidual" \in cerr

(***************************************************************************)
(* C5: a non-empty result is the sequence of pairs (r[j], x[j]), j         *)
(* increasing, r[j] # 0, of one column r of B; it has a non-zero           *)
(* coefficient and at least two entries.                                   *)
(***************************************************************************)
NonZeroPair(p) == p[1] # 0

ColumnPairs(i) == SelectSeq([j \in 1 .. n |-> <<B[j - 1][i], x[j - 1]>>], NonZeroPair)

C5_RelationShape ==
    relation # <<>> =>
        /\ \E i \in 0 .. n - 1 : relation = ColumnPairs(i)
        /\ \E k \in 1 .. Len(relation) : relation[k][1] # 0
        /\ Len(relation) >= 2

(***************************************************************************)
(* C6: the value returned when the iteration ran to the norm bound without *)
(* a relation differs from the value returned by a rejection, which is the *)
(* empty vector.                                                           *)
(***************************************************************************)
Rejections ==
    {"NotSorted", "Gamma", "Tau", "TooShort", "Zero", "Negative", "Precision",
     "HNorm", "YSmall", "YClose", "YH"}

C6_BoundDiffersFromRejection ==
    /\ exit \in Rejections => relation = <<>>
    /\ exit = "Bound" => relation # <<>>

(***************************************************************************)
(* C7: an x with fewer than two entries, not strictly increasing, or with  *)
(* an entry <= 0 is rejected before A and B exist and before any round;    *)
(* no relation is returned.                                                *)
(***************************************************************************)
BadInput(v) ==
    \/ Size(v) < 2
    \/ \E i \in 1 .. Size(v) - 1 : ~RLess(v[i - 1], v[i])
    \/ \E i \in DOMAIN v : v[i].m <= 0

ValidationPcs ==
    {"CheckSorted", "CheckGamma", "CheckTau", "CheckSize", "CheckEntries", "PrecisionGuard",
     "BuildH", "CheckHNorm", "InitY", "CheckYClose", "CheckYH"}

ExceedsTwoOverRootThree(g) ==
    /\ g.m > 0
    /\ g.e >= 1 - P
    /\ g.e = 1 - P => 3 * g.m * g.m > 4 * 2^(2 * P - 2)

GammaAndTauValid(g) ==
    /\ ExceedsTwoOverRootThree(g)
    /\ RLess(One, Tau(g))
    /\ RLess(Tau(g), FromInt(2))

C8_GammaTauValidated ==
    /\ pc \notin {"CheckSorted", "CheckGamma", "CheckTau", "done"} => GammaAndTauValid(gamma)
    /\ exit \notin {"", "NotSorted", "Gamma", "Tau"} => GammaAndTauValid(gamma)
    /\ (pc = "done" /\ ~GammaAndTauValid(gamma)) =>
            (exit \in {"NotSorted", "Gamma", "Tau"} /\ ~Started /\ H = <<>>)

C8_Witness ==
    /\ exit = "Tau"
    /\ ExceedsTwoOverRootThree(gamma)
    /\ ~RLess(One, tau)

(***************************************************************************)
(* C9: the call proceeds past the precision guard only when                *)
(* max_norm^2 * |x|^2 < 1/epsilon; at >= it rejects without building H.   *)
(***************************************************************************)
GuardProduct == RMul(RMul(max_acceptable_norm_bound, max_acceptable_norm_bound), s_sq[0])

C9_ProceedsOnlyStrictlyBelow ==
    s_sq # <<>> =>
        IF RLess(GuardProduct, InvEpsilon)
        THEN exit # "Precision"
        ELSE exit = "Precision" /\ H = <<>>

\* C9 as amended: rejected exactly when the product exceeds 1/epsilon; equality proceeds
C9_ProceedsUpToEquality ==
    s_sq # <<>> =>
        IF RLeq(GuardProduct, InvEpsilon)
        THEN exit # "Precision" /\ (pc \notin {"BuildH", "done"} => H # <<>>)
        ELSE exit = "Precision" /\ H = <<>>

C9_Witness ==
    /\ ~BadInput(x)
    /\ s_sq # <<>>
    /\ GuardProduct = InvEpsilon
    /\ H # <<>>
    /\ pc = "RelationTest"

(***************************************************************************)
(* C10: after the initial reduction and after every round, the squared     *)
(* Euclidean norm of y is 1 within sqrt(epsilon).                          *)
(***************************************************************************)
YNormSq(v) == SumFrom([i \in DOMAIN v |-> RMul(v[i], v[i])], 0, Size(v) - 1, Zero)

NormIsOne(v) == RLeq(RAbs(RSub(YNormSq(v), One)), SqrtEpsilon)

C10_YNormOne == pc \in {"InitNormBound", "LoopGuard"} => NormIsOne(y)

\* the number of entries of v equal to c
Count(v, c) == Cardinality({i \in DOMAIN v : v[i] = c})

SameEntries(v, w) ==
    /\ DOMAIN v = DOMAIN w
    /\ \A i \in DOMAIN v : Count(v, v[i]) = Count(w, v[i])

\* C10 as amended: y has norm 1 within sqrt(epsilon) when it is initialised, and the
\* swap of y[m], y[m+1] only permutes its entries
C10_YNormAtInitAndSwap ==
    [][/\ pc = "InitY" => NormIsOne(y')
       /\ pc = "Swap" => (SameEntries(y, y') /\ y'[m] = y[m + 1] /\ y'[m + 1] = y[m])]_vars

C10_Witness ==
    /\ pc = "RemoveCorner"
    /\ iteration >= 1
    /\ y[m] # y[m + 1]
    /\ ~NormIsOne(y)

(***************************************************************************)
(* C11: once H is built and checked, after the initial reduction and after *)
(* every round (swap, corner removal, re-reduction), every column j of H   *)
(* has |sum_i y[i]*H[i][j]| / (n-1) <= sqrt(epsilon).                      *)
(***************************************************************************)
AfterRoundPcs == {"InitNormBound", "LoopGuard", "SelectPivot", "RelationTest", "UpdateNormBound"}

LowerTrapezoidal(h) ==
    \A i \in DOMAIN h : \A j \in 0 .. Size(h) - 2 : j > i => h[i][j].m = 0

C12_LowerTrapezoidal ==
    /\ pc \in {"CheckHNorm"} \cup AfterRoundPcs => LowerTrapezoidal(H)
    /\ pc = "ReduceH" => LowerTrapezoidal(H)
    /\ exit \in {"Relation", "Bound"} => LowerTrapezoidal(H)
    /\ pc = "RemoveCorner" =>
          /\ \A i \in DOMAIN H : \A j \in 0 .. n - 2 :
                (j > i /\ H[i][j].m # 0) => (i = m /\ j = m + 1 /\ m <= n - 3)
          /\ m = n - 2 => LowerTrapezoidal(H)

\* a rounding residue: magnitude at most 2*epsilon
Residue(a) == RLeq(RAbs(a), RMul(FromInt(2), Epsilon))

AlmostLowerTrapezoidal(h) ==
    \A i \in DOMAIN h : \A j \in 0 .. Size(h) - 2 : j > i => Residue(h[i][j])

\* C12 as amended: above the diagonal H holds zeros or rounding residues of at most
\* 2*epsilon; the swap puts a larger entry above the diagonal only at (m, m+1), only
\* when m <= n-3, and the rotation brings it back to a residue; for m = n-2 nothing
\* above the diagonal changes
C12_LowerTrapezoidalUpToRounding ==
    /\ pc \in {"CheckHNorm", "ReduceH"} \cup AfterRoundPcs => AlmostLowerTrapezoidal(H)
    /\ exit \in {"Relation", "Bound"} => AlmostLowerTrapezoidal(H)
    /\ pc = "RemoveCorner" =>
          /\ \A i \in DOMAIN H : \A j \in 0 .. n - 2 :
                (j > i /\ ~Residue(H[i][j])) => (i = m /\ j = m + 1 /\ m <= n - 3)
          /\ m = n - 2 => AlmostLowerTrapezoidal(H)

C12_Witness ==
    /\ pc = "ReduceH"
    /\ ri = m + 1
    /\ rj = m
    /\ m <= n - 3
    /\ H[m][m + 1].m # 0
    /\ Residue(H[m][m + 1])
    /\ ~Residue(H[m + 1][m + 1])

(***************************************************************************)
(* C13: the norm bound computed at the end of a round is never smaller     *)
(* than the norm bound of the round before (or of the initial reduction).  *)
(***************************************************************************)
C13_NormBoundMonotone ==
    [][pc = "UpdateNormBound" /\ pc' = "LoopGuard" => RLeq(norm_bound, norm_bound')]_vars

C13_Witness ==
    /\ pc = "LoopGuard"
    /\ iteration >= 2
    /\ n = 3
    /\ RLess(One, norm_bound)
    /\ norm_bound = last_norm_bound

(***************************************************************************)
(* C14: for x = (a, b), 0 < a < b, b/a = p/q in lowest terms, and a        *)
(* max_norm above the norm of that relation, the call returns the          *)
(* relation of a and b with the coefficients p and q (one of them          *)
(* negated), or its negation.                                              *)
(***************************************************************************)
RECURSIVE Gcd(_, _)
Gcd(a, b) == IF b = 0 THEN a ELSE Gcd(b, a % b)

\* b/a = RatioP/RatioQ in lowest terms for the two entries of v
RatioP(v) == Scaled(v)[1] \div Gcd(Scaled(v)[1], Scaled(v)[0])

RatioQ(v) == Scaled(v)[0] \div Gcd(Scaled(v)[1], Scaled(v)[0])

\* the coefficient vectors the claim admits: (q, -p) as written, and (p, -q), the
\* vector with p*a - q*b = 0, each with its negation
RatioRelations(v) ==
    LET p == RatioP(v)
        q == RatioQ(v)
    IN  {Pair(q, -p), Pair(-q, p), Pair(p, -q), Pair(-p, q)}

\* a call on two entries that passed validation, with max_norm above the relation's norm
RatioCase ==
    /\ n = 2
    /\ pc = "done"
    /\ exit \notin Rejections \cup {"Abort"}
    /\ NormBelow(Pair(RatioP(x), RatioQ(x)), max_acceptable_norm_bound)

C14_RatioRelation ==
    RatioCase => (exit = "Relation" /\ Len(relation) = 2 /\ Coeffs(relation) \in RatioRelations(x))

(***************************************************************************)
(* C15: the main loop ends, with a relation or at the norm bound, after at *)
(* most expected_iterations rounds.                                        *)
(***************************************************************************)
LoopPcs == {"SelectPivot", "Swap", "RemoveCorner", "ReduceH", "RelationTest", "UpdateNormBound"}

\* the rounds begun so far
Rounds == IF pc \in LoopPcs THEN iteration + 1 ELSE iteration

InLoop == pc \in LoopPcs \cup {"LoopGuard"} \/ exit \in {"Relation", "Bound"}

C15_WithinExpectedIterations == InLoop => Rounds <= expected_iterations

\* C15 as amended: at most expected_iterations rounds when that number is positive, and
\* no round at all when it is zero or negative (max_norm * gamma^(n-1) <= 1);
\* every run reaches one of the two ends of the loop within the rounds explored
C15_WithinExpectedIterationsOrNone ==
    /\ InLoop => Rounds <= (IF expected_iterations > 0 THEN expected_iterations ELSE 0)
    /\ pc = "LoopGuard" /\ RLess(norm_bound, max_acceptable_norm_bound) => iteration < MaxIter

C15_Witness ==
    /\ exit = "Bound"
    /\ n = 3
    /\ iteration >= 3
    /\ expected_iterations >= iteration

(***************************************************************************)
(* C16: a reduction pass whose multiplier t, or whose new entry of A or B, *)
(* does not fit the integer type stops pslq with the fatal outcome         *)
(* IntegerOverflow; the iteration never goes on, and no relation is        *)
(* returned, with wrapped or truncated integers.                           *)
(***************************************************************************)
\* a reduction pass is about to run for a pair whose integers leave the range
OverflowDue ==
    /\ pc \in {"InitialReduce", "ReduceH"}
    /\ H[rj][rj].m # 0
    /\ Overflows(ri, rj)

C16_OverflowIsFatal == [][OverflowDue => exit' = "IntegerOverflow"]_vars

(***************************************************************************)
(* C17: with the default gamma = 2/sqrt(3) + 0.01 the derived              *)
(* tau = 1/sqrt(1/4 + 1/gamma^2) is approximately 1.154 and passes the     *)
(* validation 1 < tau < 2.                                                 *)
(***************************************************************************)
\* tau has been derived from gamma by the call
TauDerived ==
    /\ pc \notin {"CheckSorted", "CheckGamma", "CheckTau"}
    /\ exit \notin {"NotSorted", "Gamma"}

\* |a - c/10000| <= d/10000, for a Real a below 2 with a fraction part
WithinTenThousandths(a, c, d) ==
    /\ a.e < 0
    /\ Abs(a.m * 10000 - c * 2^(-a.e)) <= d * 2^(-a.e)

\* the statement as made: tau within 0.005 of 1.154
C17_DefaultTau ==
    TauDerived /\ gamma = DefaultGamma =>
        /\ WithinTenThousandths(tau, 11540, 50)
        /\ exit # "Tau"

\* the statement with the value the code derives: tau within 0.001 of 1.0065
C17_DefaultTauNearOne ==
    TauDerived /\ gamma = DefaultGamma =>
        /\ WithinTenThousandths(tau, 10065, 10)
        /\ RLess(One, tau) /\ RLess(tau, FromInt(2))
        /\ exit # "Tau"

C17_Witness ==
    /\ pc = "CheckSize"
    /\ gamma = DefaultGamma
    /\ tau = Tau(DefaultGamma)
    /\ Size(x) >= 2

(***************************************************************************)
(* C18: every reduction step applies one and the same integer t to H, to y *)
(* and to the ledger, so that after every step and every swap              *)
(* y_j * |x| = sum over k of B[k,j]*x_k for every j (here: up to           *)
(* sqrt(epsilon) times the sum of the |B[k,j]*x_k|).                       *)
(***************************************************************************)
\* y[j]*sqrt(s_sq[0]), the entry of y brought back to the scale of x
YTimesNorm(j) == RMul(y[j], RSqrt(s_sq[0]))

\* column j of the ledger B reproduces y[j] from x
LedgerTracksY(j) ==
    RLeq(RAbs(RSub(YTimesNorm(j), Residual(Col(B, j), x))),
         RMul(SqrtEpsilon, AbsSum(Col(B, j), x)))

C18_YTracksLedger == Started => \A j \in 0 .. n - 1 : LedgerTracksY(j)

(***************************************************************************)
(* C19: after the initial Hermite reduction and after the partial          *)
(* re-reduction of every round H is fully size-reduced:                    *)
(* |H(i,j)| <= |H(j,j)|/2 for all 0 <= j < i <= n-1.                       *)
(***************************************************************************)
\* |h(i,j)| <= |h(j,j)|/2 below the whole diagonal
SizeReduced(h) ==
    \A i \in 1 .. Size(h) - 1 : \A j \in 0 .. i - 1 :
        j <= Size(h) - 2 => RLeq(RMul(FromInt(2), RAbs(h[i][j])), RAbs(h[j][j]))

\* the initial reduction, or the re-reduction of a round, has just finished
ReductionDone == pc \in {"InitNormBound", "RelationTest"}

ReducePass ==
    /\ pc \in {"InitialReduce", "ReduceH"}
    /\ IsFinite(H[ri][rj]) /\ IsFinite(H[rj][rj]) /\ H[rj][rj] # Zero
    /\ pc' # "done"

\* |r| <= |b|/2 + 2*epsilon*(|a| + |b|): r is a remainder of a by b up to rounding
RemainderUpToRounding(r, a, b) ==
    RLeq(RAbs(r), RAdd(RDiv(RAbs(b), FromInt(2)),
                       RMul(RMul(FromInt(2), Epsilon), RAdd(RAbs(a), RAbs(b)))))

\* the entries of h and g agree outside columns 0..j of row i
SameOutsideRow(h, g, i, j) ==
    \A r \in DOMAIN h : \A k \in DOMAIN h[r] : (r # i \/ k > j) => g[r][k] = h[r][k]

PivotTerm(i) == RMul(RPow(gamma, i + 1), RAbs(H[i][i]))

\* m is in use: selected in this round and not yet replaced
PivotInUse == pc \in {"Swap", "RemoveCorner", "ReduceH", "RelationTest", "UpdateNormBound"}

C20_PivotFirstMaximal ==
    /\ pc = "Swap" =>
          /\ m \in 0 .. n - 2
          /\ \A i \in 0 .. n - 2 : RLeq(PivotTerm(i), PivotTerm(m))
          /\ \A i \in 0 .. m - 1 : RLess(PivotTerm(i), PivotTerm(m))
    /\ PivotInUse => 0 <= m /\ m + 1 <= n - 1
    /\ exit \notin {"PivotHigh", "PivotLow"}

C20_Witness ==
    /\ pc = "Swap"
    /\ n = 3
    /\ iteration >= 1
    /\ m = 1
    /\ RLess(RAbs(H[1][1]), RAbs(H[0][0]))

(***************************************************************************)
(* C21: the relation test runs once at the end of each round, scanning     *)
(* i = 0..n-1 in order: in the first round in which some                   *)
(* |y_i| < epsilon^(15/16), pslq returns column B[:,i] for the least such  *)
(* i and stops; it never goes on to look for a later or smaller relation,  *)
(* and a large residual of that column does not prevent its return.        *)
(***************************************************************************)
\* the entries of y the relation test accepts
SmallY == {i \in 0 .. n - 1 : RLess(RAbs(y[i]), RelationThreshold)}

\* the least member of a non-empty set of indices
Least(S) == CHOOSE i \in S : \A k \in S : i <= k

C21_FirstRelationReturned ==
    [][/\ pc = "RelationTest" =>
            IF SmallY # {}
            THEN /\ pc' = "done" /\ exit' = "Relation"
                 /\ relation' = ColumnPairs(Least(SmallY))
            ELSE /\ pc' = "UpdateNormBound" /\ exit' = "" /\ relation' = <<>>
       /\ pc' = "RelationTest" => pc = "ReduceH" /\ ri = n - 1 /\ rj = 0
       /\ exit' = "Relation" => pc = "RelationTest"]_vars

\* a relation was returned from a round that left two entries of y below the
\* threshold, with the diagnostic of a large residual written
C21_Witness ==
    /\ exit = "Relation"
    /\ Cardinality(SmallY) >= 2
    /\ relation = ColumnPairs(Least(SmallY))
    /\ relation # ColumnPairs(CHOOSE i \in SmallY : \A k \in SmallY : i >= k)
    /\ "LargeResidual" \in cerr

(***************************************************************************)
(* C22: pslq executes a round only while NB < max_norm: NB = 1/max|H(i,i)| *)
(* is evaluated after the initial reduction and again after every round    *)
(* that found no relation, and as soon as NB >= max_norm pslq returns the  *)
(* empty result; if NB >= max_norm holds after the initial reduction, no   *)
(* round (no swap, no relation test) is executed.                          *)
(***************************************************************************)
\* the greatest |H(i,i)|, i = 0..n-2
MaxDiagonal ==
    LET D == {RAbs(H[i][i]) : i \in 0 .. n - 2}
    IN  CHOOSE d \in D : \A e \in D : RLeq(e, d)

\* the statements of a round
RoundPcs == {"SelectPivot", "Swap", "RemoveCorner", "ReduceH", "RelationTest", "UpdateNormBound"}

C22_RoundOnlyBelowBound ==
    [][/\ pc = "LoopGuard" =>
            /\ norm_bound = RDiv(One, MaxDiagonal)
            /\ IF RLess(norm_bound, max_acceptable_norm_bound)
               THEN pc' = "SelectPivot" /\ exit' = ""
               ELSE pc' = "done" /\ exit' = "Bound" /\ relation' = <<>>
       /\ pc' = "LoopGuard" => pc \in {"InitNormBound", "UpdateNormBound"}
       /\ (pc' \in RoundPcs /\ pc \notin RoundPcs) =>
            pc = "LoopGuard" /\ RLess(norm_bound, max_acceptable_norm_bound)
       /\ exit' = "Bound" => pc = "LoopGuard"]_vars

\* the bound was reached after two rounds that found no relation
C22_Witness ==
    /\ exit = "Bound"
    /\ iteration >= 2
    /\ n = 3
    /\ relation = <<>>
    /\ ~RLess(norm_bound, max_acceptable_norm_bound)

(***************************************************************************)
(* C23: for every validated x the matrix H built from the suffix sums has  *)
(* every column of unit squared norm, so |H|_F^2 = n-1, and the            *)
(* self-checks after the construction never reject a validated input       *)
(* (here in Real arithmetic: unit up to 4*epsilon per column).             *)
(***************************************************************************)
\* H is as constructed: built and not yet touched by the initial reduction
HAsBuilt ==
    \/ pc \in {"CheckHNorm", "InitY", "CheckYClose", "CheckYH", "CreateLedger"}
    \/ exit \in {"HNorm", "YSmall", "YClose", "YH", "Abort"}

\* the squared norm of column j of h, summed from the diagonal down
ColumnSq(h, j) ==
    SumFrom([i \in DOMAIN h |-> RMul(h[i][j], h[i][j])], 0, Size(h) - 1, Zero)

\* |a - 1| <= 4*epsilon
NearOne(a) == RLeq(RAbs(RSub(a, One)), RMul(FromInt(4), Epsilon))

C23_UnitColumns ==
    /\ HAsBuilt =>
          /\ \A j \in 0 .. n - 2 : NearOne(ColumnSq(H, j))
          /\ \A i \in 0 .. n - 1 : \A j \in 0 .. n - 2 : i < j => H[i][j] = Zero
          /\ RLeq(RAbs(RSub(SquaredNorm(H), FromInt(n - 1))),
                  RMul(SqrtEpsilon, FromInt(n - 1)))
    /\ exit \notin {"HNorm", "YH"}

C23_Witness ==
    /\ pc = "CreateLedger"
    /\ n = 3
    /\ H = BuildHx(x, s_sq)
    /\ \E j \in 0 .. n - 2 : ColumnSq(H, j) # One

(***************************************************************************)
(* C24: pslq never modifies the caller's vector x: on every exit path x    *)
(* holds the same values in the same order as on entry, and the reals in   *)
(* the returned pairs are those entry values.                              *)
(***************************************************************************)
\* the reals of the pairs of rel are entries of v, in the order of v
EntriesOf(rel, v) ==
    \E f \in [1 .. Len(rel) -> DOMAIN v] :
        /\ \A k \in 1 .. Len(rel) : rel[k][2] = v[f[k]]
        /\ \A k \in 1 .. Len(rel) - 1 : f[k] < f[k + 1]

C24_InputUntouched ==
    [][/\ x' = x
       /\ exit' # "" => EntriesOf(relation', x)]_vars

C24_Witness ==
    /\ exit = "Relation"
    /\ n = 3
    /\ iteration >= 1
    /\ Len(relation) >= 2
    /\ A # Identity(n)

(***************************************************************************)
(* C25: the check that rejects two consecutive normalised entries within   *)
(* 2 ULPs reads only entries of y with index in 0..n-1, for every i in     *)
(* 1..n-1 at which it fires, i = n-1 included.                             *)
(***************************************************************************)
C25_ReadsInsideY ==
    /\ (pc = "CheckYClose" /\ FirstClose(y, 1) < n) =>
            CloseReads(FirstClose(y, 1)) \subseteq 0 .. n - 1
    /\ exit # "Abort"

(***************************************************************************)
(* C26: no division by zero is reachable in pslq for a validated input:    *)
(* every H(j,j) used as divisor in t = round(H(i,j)/H(j,j)) is non-zero at *)
(* every reduction step, t0 = sqrt(H(m,m)^2 + H(m,m+1)^2) is non-zero in   *)
(* every corner removal, and max|H(i,i)| is non-zero whenever              *)
(* NB = 1/max|H(i,i)| is computed.                                         *)
(***************************************************************************)
C26_NoZeroDivisor ==
    /\ pc \in {"InitialReduce", "ReduceH"} => H[rj][rj] # Zero
    /\ (pc = "RemoveCorner" /\ m < n - 2) => CornerT0(H, m) # Zero
    /\ pc \in {"InitNormBound", "UpdateNormBound"} => MaxCoeff(H, 0, Zero) # Zero


(***************************************************************************)
(* C27: the ranges and the invocations of parallel_for.                    *)
(***************************************************************************)
\* the indices launch_range(lo, hi) passes to parallel_function
RangeOf(t) == {k \in 0 .. IndexMax : t.index_lo <= k /\ k < t.index_hi}

Wanted == {k \in 0 .. IndexMax : start <= k /\ k < end}

\* C27: the threads get pairwise disjoint ranges whose union is [start, end),
\* at most number_of_threads of them are launched, parallel_function is
\* invoked once for every index of [start, end) and for no other index, and
\* parallel_for returns only after every thread has finished
C27_RangesPartition ==
    /\ Len(pool) <= number_of_threads
    /\ \A v, w \in 1 .. Len(pool) : v # w => RangeOf(pool[v]) \cap RangeOf(pool[w]) = {}
    /\ \A w \in 1 .. Len(pool) : RangeOf(pool[w]) \subseteq Wanted
    /\ at \in {"join", "returned"} => UNION {RangeOf(pool[w]) : w \in 1 .. Len(pool)} = Wanted
    /\ \A k \in 0 .. IndexMax : calls[k] <= (IF k \in Wanted THEN 1 ELSE 0)
    /\ at = "returned" =>
          /\ \A w \in 1 .. Len(pool) : Finished(pool[w])
          /\ \A k \in Wanted : calls[k] = 1


(***************************************************************************)
(* C28: the spin lock of generate_mandelbrot_image.                        *)
(***************************************************************************)
\* between a spin loop and the clear() that follows it
InCritical(t) ==
    t.pc \in {"count", "count_store", "count_unlock",
              "store", "histogram", "histogram_store", "pixel_unlock"}

Holders == {w \in 1 .. Len(pool) : InCritical(pool[w])}

\* holding an iteration_result computed for a pixel
HasResult(t) ==
    t.pc \in {"pixel_lock", "store", "histogram", "histogram_store", "pixel_unlock"}

RECURSIVE HistogramSum(_)
\* the sum of the histogram entries 0..k
HistogramSum(k) ==
    IF k < 0 THEN 0 ELSE mandelbrot_color_histogram[k] + HistogramSum(k - 1)

\* C28: at most one thread is between a spin loop and its clear(), and the
\* flag is set exactly then; every iteration_result is at most max_iterations,
\* an index of the histogram; and once parallel_for has returned the histogram
\* entries sum to width * height and the row counter is the number of rows
C28_ExclusiveAndComplete ==
    /\ Cardinality(Holders) <= 1
    /\ mandelbrot_iteration_lock = (Holders # {})
    /\ \A w \in 1 .. Len(pool) :
          HasResult(pool[w]) => pool[w].iteration_result \in 0 .. max_iterations
    /\ at = "returned" =>
          /\ HistogramSum(max_iterations) = integral_width * integral_height
          /\ unordered_parallel_row_count = integral_height

\* parallel_for has returned from three threads that filled an image of at
\* least two columns whose pixels took different numbers of iterations
C28_Witness ==
    /\ at = "returned"
    /\ Len(pool) >= 3
    /\ integral_width >= 2
    /\ unordered_parallel_row_count = integral_height
    /\ HistogramSum(max_iterations) = integral_width * integral_height
    /\ \E k \in 0 .. max_iterations :
          /\ 0 < mandelbrot_color_histogram[k]
          /\ mandelbrot_color_histogram[k] < integral_width * integral_height

====
